---- MODULE Spec2Model ----
(***************************************************************************)
(* Travel Assistant (src/app.py): a Streamlit page script that collects a  *)
(* destination and three API keys, runs a tool-calling agent with two      *)
(* tools (get_weather, search_attractions) and stores the agent's output   *)
(* in st.session_state.travel_results.                                     *)
(*                                                                         *)
(* Every user interaction re-executes the page script from the top; the    *)
(* script run triggered by the "Plan My Trip" button is split at the       *)
(* network calls of the agent loop (one step per model call, one per tool  *)
(* call).  Python exceptions are values: a call yields Return(v) or        *)
(* Raise(e).                                                               *)
(***************************************************************************)
EXTENDS Integers, Sequences, FiniteSets, TLC

VARIABLES
    destination_box,     \* value of the destination selectbox (line 68)
    custom_destination,  \* value of the free-text destination input (line 77)
    interests,           \* value of the interests multiselect (line 89)
    GOOGLE_API_KEY,      \* text inputs of the settings tab (lines 118-123)
    TAVILY_API_KEY,
    WEATHER_API_KEY,
    session_state,       \* st.session_state: a dict, maybe holding travel_results
    page,                \* what the last script run rendered
    pc,                  \* "idle" | "plan" (model call next) | "tool" (tool call next)
    agent_input,         \* the "input" handed to agent_executor.invoke
    iterations,          \* AgentExecutor's iteration counter
    tool_call,           \* the tool invocation the model requested
    observation,         \* the last tool result appended to the scratchpad
    provider,            \* the provider response of the last lookup
    model_output,        \* the model's last response
    outcome,             \* history: the compose call of the latest script run
    results_for,         \* history: destination the stored travel_results were composed for
    compose_calls        \* history: compose calls started since the last button press

widgets == <<destination_box, custom_destination, interests,
             GOOGLE_API_KEY, TAVILY_API_KEY, WEATHER_API_KEY>>

\* the locals of the running script and of the agent loop it calls
locals == <<agent_input, iterations, tool_call, observation, provider,
            model_output, outcome>>

vars == <<widgets, session_state, page, pc, locals, results_for, compose_calls>>

(***************************************************************************)
(* Bounds of the model.                                                    *)
(***************************************************************************)
\* how many of the selectbox's suggestions the user picks from
MaxOptions == 2
\* longest result list the search provider returns
MaxResults == 6

(***************************************************************************)
(* Python values.                                                          *)
(***************************************************************************)
Return(v) == [raised |-> FALSE, value |-> v]
Raise(e) == [raised |-> TRUE, exc |-> e]

\* dict without key k
Without(d, k) == [x \in DOMAIN d \ {k} |-> d[x]]

\* dict.get(key, default)
dict_get(d, key, default) == IF key \in DOMAIN d THEN d[key] ELSE default

\* truthiness of a str
Truthy(s) == s # ""

(***************************************************************************)
(* get_weather (lines 152-174).                                            *)
(***************************************************************************)
\* the subscript chains of the weather_info literal, in evaluation order
WeatherPaths ==
    << <<"location", "name">>, <<"location", "country">>,
       <<"current", "temp_c">>, <<"current", "temp_f">>,
       <<"current", "condition", "text">>, <<"current", "humidity">>,
       <<"current", "wind_kph">>, <<"current", "feelslike_c">>,
       <<"current", "feelslike_f">>, <<"current", "last_updated">> >>

\* data[p[1]][p[2]]...: the value, or the KeyError of the first absent key
RECURSIVE Subscript(_, _)
Subscript(d, p) ==
    IF p = <<>> THEN Return(d)
    ELSE IF Head(p) \in DOMAIN d THEN Subscript(d[Head(p)], Tail(p))
    ELSE Raise("'" \o Head(p) \o "'")

\* the try block of get_weather
get_weather_try(key, location, response) ==
    IF response.kind = "transport_failure"
    THEN Raise("ConnectionError")                               \* requests.get
    ELSE IF response.status >= 400
    THEN Raise(ToString(response.status) \o " Error")           \* raise_for_status
    ELSE IF ~response.body.json
    THEN Raise("Expecting value: line 1 column 1 (char 0)")     \* response.json()
    ELSE LET data == response.body.data
             bad == {i \in DOMAIN WeatherPaths : Subscript(data, WeatherPaths[i]).raised}
             at(i) == Subscript(data, WeatherPaths[i]).value
         IN IF bad # {}
            THEN Subscript(data, WeatherPaths[CHOOSE i \in bad : \A j \in bad : i <= j])
            ELSE Return([location |-> at(1) \o ", " \o at(2),
                         temperature_c |-> at(3),
                         temperature_f |-> at(4),
                         condition |-> at(5),
                         humidity |-> at(6),
                         wind_kph |-> at(7),
                         feels_like_c |-> at(8),
                         feels_like_f |-> at(9),
                         last_updated |-> at(10)])

\* get_weather without its except clause
M_get_weather_no_except(key, location, response) ==
    get_weather_try(key, location, response)

\* get_weather with an except clause that catches only the errors of requests
M_get_weather_narrow_except(key, location, response) ==
    LET r == get_weather_try(key, location, response)
    IN IF r.raised /\ (response.kind = "transport_failure" \/ response.status >= 400)
       THEN Return([error |-> "Failed to get weather information: " \o r.exc])
       ELSE r

\* get_weather: the try block and its except Exception clause
get_weather(key, location, response) ==
    LET r == get_weather_try(key, location, response)
    IN IF r.raised
       THEN Return([error |-> "Failed to get weather information: " \o r.exc])
       ELSE r

(***************************************************************************)
(* search_attractions (lines 177-193).  The formatted string is kept as    *)
(* the sequence of pieces that the code appends to it.                     *)
(***************************************************************************)
\* format_results that leaves out the results without a title
RECURSIVE M_format_results_titled(_, _)
M_format_results_titled(results, i) ==
    IF i > Len(results) THEN <<>>
    ELSE (IF "title" \in DOMAIN results[i]
          THEN << ToString(i) \o ". " \o results[i]["title"] \o "\n",
                  "   " \o dict_get(results[i], "content", "No description") \o "\n\n" >>
          ELSE <<>>)
         \o M_format_results_titled(results, i + 1)

RECURSIVE format_results(_, _)
format_results(results, i) ==
    IF i > Len(results) THEN <<>>
    ELSE << ToString(i) \o ". " \o dict_get(results[i], "title", "No title") \o "\n",
            "   " \o dict_get(results[i], "content", "No description") \o "\n\n" >>
         \o format_results(results, i + 1)

search_attractions(key, location, response) ==
    IF ~response.ok
    THEN Raise(response.exc)                                    \* search_tool.invoke
    ELSE Return(<<"Top Attractions:\n\n">> \o format_results(response.results, 1))

\* line 184: the number of results asked of the search provider
k == 5

(***************************************************************************)
(* Provider responses: the inputs of the two lookups.                      *)
(***************************************************************************)
\* a complete body of current.json (the fields the code reads)
WeatherData ==
    [location |-> [name |-> "Paris", country |-> "France"],
     current |-> [temp_c |-> 18, temp_f |-> 64,
                  condition |-> [text |-> "Sunny"],
                  humidity |-> 50, wind_kph |-> 10,
                  feelslike_c |-> 17, feelslike_f |-> 63,
                  last_updated |-> "2024-05-01 12:00"]]

\* d without the entry that path p leads to
RECURSIVE RemovePath(_, _)
RemovePath(d, p) ==
    IF Len(p) = 1 THEN Without(d, Head(p))
    ELSE [d EXCEPT ![Head(p)] = RemovePath(d[Head(p)], Tail(p))]

\* every non-empty prefix of an expected subscript chain
FieldPaths ==
    UNION {{SubSeq(WeatherPaths[i], 1, n) : n \in 1..Len(WeatherPaths[i])} :
              i \in DOMAIN WeatherPaths}

\* the complete body, and each body lacking one field or one object
WeatherBodies ==
    {[json |-> FALSE]} \cup {[json |-> TRUE, data |-> WeatherData]}
    \cup {[json |-> TRUE, data |-> RemovePath(WeatherData, p)] : p \in FieldPaths}

WeatherResponses ==
    {[kind |-> "transport_failure"]}
    \cup {[kind |-> "http", status |-> s, body |-> b] :
             s \in {200, 401, 500}, b \in WeatherBodies}

\* the responses drawn inside the agent loop: one of each outcome
AgentWeatherResponses ==
    {[kind |-> "transport_failure"],
     [kind |-> "http", status |-> 401, body |-> [json |-> FALSE]],
     [kind |-> "http", status |-> 200, body |-> [json |-> FALSE]],
     [kind |-> "http", status |-> 200,
      body |-> [json |-> TRUE, data |-> RemovePath(WeatherData, <<"current", "condition">>)]],
     [kind |-> "http", status |-> 200, body |-> [json |-> TRUE, data |-> WeatherData]]}

\* result dicts of the search provider; title and content are optional
SearchResultDicts ==
    {[title |-> "Eiffel Tower", content |-> "Iron lattice tower", url |-> "u1"],
     [title |-> "Louvre", content |-> "Art museum", url |-> "u2"],
     [content |-> "A cathedral", url |-> "u3"],
     [title |-> "Montmartre", url |-> "u4"],
     [url |-> "u5"]}

SeqsUpTo(S, n) == UNION {[1..m -> S] : m \in 0..n}

SearchFailures ==
    {[ok |-> FALSE, exc |-> "ConnectionError"],
     [ok |-> FALSE, exc |-> "401 Unauthorized"]}

SearchResponses ==
    SearchFailures
    \cup {[ok |-> TRUE, results |-> rs] : rs \in SeqsUpTo(SearchResultDicts, MaxResults)}

AgentSearchResponses ==
    SearchFailures
    \cup {[ok |-> TRUE, results |-> rs] :
             rs \in {<<>>,
                     <<[title |-> "Eiffel Tower", content |-> "Iron lattice tower", url |-> "u1"],
                       [content |-> "A cathedral", url |-> "u3"]>>}}

Locations == {"Paris, France", "Atlantis", ""}
ApiKeys == {"", "key"}

NoCall == [tool |-> "none"]
NoResponse == [kind |-> "none"]

\* the record of one executed tool call
Executed(tool, location, r) ==
    IF r.raised
    THEN [tool |-> tool, location |-> location, raised |-> TRUE, exc |-> r.exc]
    ELSE [tool |-> tool, location |-> location, raised |-> FALSE, value |-> r.value]

(***************************************************************************)
(* The page script (lines 62-110 and 236-289).                             *)
(***************************************************************************)
\* the suggestions of the selectbox (line 67)
destination_options ==
    <<"Paris, France", "Tokyo, Japan", "New York, USA", "Rome, Italy",
      "Sydney, Australia">>

\* the default of the interests multiselect (line 92)
default_interests == <<"Historical Sites", "Food & Dining">>

\* what the user picks or types
BoxChoices ==
    {""} \cup {destination_options[i] : i \in 1..MaxOptions}
CustomTexts == {"", "Oslo"}
InterestChoices == {<<>>, default_interests}

\* what the model answers or asks for
FinalTexts == {"## Paris in the sun", "## Sorry, no weather data"}
ToolNames == {"get_weather", "search_attractions"}
ModelFailures == {"503 model unavailable"}

\* lines 68-79: the selectbox value, else the free text
Destination(box, custom) ==
    IF Truthy(box) THEN box
    ELSE IF Truthy(custom) THEN custom ELSE box

\* lines 99-103: the results section
ResultsSection(destination, ss) ==
    IF "travel_results" \in DOMAIN ss
    THEN [shown |-> TRUE,
          heading |-> "Your Travel Plan for " \o destination,
          body |-> ss["travel_results"],
          error |-> "", info |-> ""]
    ELSE [shown |-> FALSE, heading |-> "", body |-> "", error |-> "", info |-> ""]

\* ", ".join(xs)
RECURSIVE join(_, _)
join(sep, xs) ==
    IF xs = <<>> THEN ""
    ELSE IF Len(xs) = 1 THEN Head(xs)
    ELSE Head(xs) \o sep \o join(sep, Tail(xs))

\* lines 230-233: the input of agent_executor.invoke
compose_input(destination, ints) ==
    LET interests_str == IF ints # <<>> THEN join(", ", ints) ELSE "general sightseeing"
    IN "I'm planning to visit " \o destination \o ". I'm interested in "
       \o interests_str
       \o ". What's the weather like and what are some attractions I should see?"

\* run_travel_assistant returning the wrong entry of the response
M_run_travel_assistant_input(response) == response.input

\* line 234: what run_travel_assistant returns
run_travel_assistant(response) == response.output

\* any() in place of all()
M_any_keys(google, tavily, weather) ==
    Truthy(google) \/ Truthy(tavily) \/ Truthy(weather)

\* line 239: all([GOOGLE_API_KEY, TAVILY_API_KEY, WEATHER_API_KEY])
all_keys(google, tavily, weather) ==
    Truthy(google) /\ Truthy(tavily) /\ Truthy(weather)

\* line 237: the condition of the submit handler
submit_guard(submit_button, destination) ==
    submit_button /\ Truthy(destination)

\* a rerun that sees the button still pressed
M_rerun_submit_button_pressed == TRUE

\* line 281: the button's value in the run that st.experimental_rerun starts
rerun_submit_button == FALSE

\* line 224: AgentExecutor(agent, tools) keeps the executor's defaults,
\* max_iterations = 15 and early_stopping_method = "force"
max_iterations == 15
StoppedResponse == "Agent stopped due to iteration limit or time limit."

\* AgentExecutor's loop condition
should_continue(n) == n < max_iterations

Widgets ==
    [box |-> destination_box, custom |-> custom_destination, interests |-> interests,
     google |-> GOOGLE_API_KEY, tavily |-> TAVILY_API_KEY, weather |-> WEATHER_API_KEY]

Locals ==
    [agent_input |-> agent_input, iterations |-> iterations, tool_call |-> tool_call,
     observation |-> observation, provider |-> provider,
     model_output |-> model_output, outcome |-> outcome]

NoLocals ==
    [agent_input |-> "", iterations |-> 0, tool_call |-> NoCall,
     observation |-> NoCall, provider |-> NoResponse,
     model_output |-> [type |-> "none"], outcome |-> [kind |-> "none"]]

SetLocals(l) ==
    /\ agent_input' = l.agent_input
    /\ iterations' = l.iterations
    /\ tool_call' = l.tool_call
    /\ observation' = l.observation
    /\ provider' = l.provider
    /\ model_output' = l.model_output
    /\ outcome' = l.outcome

\* One execution of the script up to its first model call: with widget values
\* w, session state ss and the button's value; l are the locals that stay
\* when the run calls no compose, calls the compose calls counted so far.
ScriptRun(w, ss, submit_button, l, calls) ==
    LET destination == Destination(w.box, w.custom)
        shown == ResultsSection(destination, ss)
    IN /\ destination_box' = w.box
       /\ custom_destination' = w.custom
       /\ interests' = w.interests
       /\ GOOGLE_API_KEY' = w.google
       /\ TAVILY_API_KEY' = w.tavily
       /\ WEATHER_API_KEY' = w.weather
       /\ session_state' = ss
       /\ IF submit_guard(submit_button, destination)
          THEN IF ~all_keys(w.google, w.tavily, w.weather)
               THEN /\ page' = [shown EXCEPT
                                  !.error = "Please provide all required API keys in the Settings tab."]
                    /\ pc' = "idle"
                    /\ SetLocals(l)
                    /\ compose_calls' = calls
               ELSE /\ page' = shown
                    /\ pc' = "plan"
                    /\ SetLocals([NoLocals EXCEPT
                                    !.agent_input = compose_input(destination, w.interests),
                                    !.outcome = [kind |-> "running",
                                                 destination |-> destination]])
                    /\ compose_calls' = calls + 1
          ELSE /\ page' = shown
               /\ pc' = "idle"
               /\ SetLocals(l)
               /\ compose_calls' = calls

Init ==
    /\ destination_box = ""
    /\ custom_destination = ""
    /\ interests = default_interests
    /\ GOOGLE_API_KEY = ""
    /\ TAVILY_API_KEY = ""
    /\ WEATHER_API_KEY = ""
    /\ session_state = <<>>
    /\ page = ResultsSection("", <<>>)
    /\ pc = "idle"
    /\ agent_input = NoLocals.agent_input
    /\ iterations = NoLocals.iterations
    /\ tool_call = NoLocals.tool_call
    /\ observation = NoLocals.observation
    /\ provider = NoLocals.provider
    /\ model_output = NoLocals.model_output
    /\ outcome = NoLocals.outcome
    /\ results_for = ""
    /\ compose_calls = 0

(***************************************************************************)
(* User actions: each one re-executes the script.                          *)
(***************************************************************************)
\* the user picks an entry of the selectbox; the free-text input is only
\* rendered, and only keeps a value, while the selectbox is empty
SelectDestination ==
    /\ pc = "idle"
    /\ \E d \in BoxChoices \ {destination_box} :
          ScriptRun([Widgets EXCEPT !.box = d,
                                    !.custom = IF Truthy(d) THEN "" ELSE @],
                    session_state, FALSE, NoLocals, compose_calls)
    /\ UNCHANGED results_for

EnterCustomDestination ==
    /\ pc = "idle"
    /\ ~Truthy(destination_box)
    /\ \E c \in CustomTexts \ {custom_destination} :
          ScriptRun([Widgets EXCEPT !.custom = c],
                    session_state, FALSE, NoLocals, compose_calls)
    /\ UNCHANGED results_for

SelectInterests ==
    /\ pc = "idle"
    /\ \E i \in InterestChoices \ {interests} :
          ScriptRun([Widgets EXCEPT !.interests = i],
                    session_state, FALSE, NoLocals, compose_calls)
    /\ UNCHANGED results_for

EnterApiKey ==
    /\ pc = "idle"
    /\ \E f \in {"google", "tavily", "weather"}, v \in ApiKeys :
          /\ Widgets[f] # v
          /\ ScriptRun([Widgets EXCEPT ![f] = v],
                       session_state, FALSE, NoLocals, compose_calls)
    /\ UNCHANGED results_for

\* the user presses "Plan My Trip"
PressSubmit ==
    /\ pc = "idle"
    /\ ScriptRun(Widgets, session_state, TRUE, NoLocals, 0)
    /\ UNCHANGED results_for

(***************************************************************************)
(* The agent loop inside agent_executor.invoke (line 231) and the rest of  *)
(* the submit handler (lines 266-289).                                     *)
(***************************************************************************)
\* lines 266-281: the executor returned response; store it and rerun
Finish(l, response) ==
    /\ results_for' = l.outcome.destination
    /\ ScriptRun(Widgets,
                 [x \in DOMAIN session_state \cup {"travel_results"} |->
                     IF x = "travel_results" THEN run_travel_assistant(response)
                     ELSE session_state[x]],
                 rerun_submit_button,
                 [l EXCEPT !.outcome = [kind |-> "ComposedAnswer",
                                        destination |-> l.outcome.destination]],
                 compose_calls)

\* lines 283-289: the except clause of the submit handler
Fail(l, exc, source) ==
    /\ page' = [page EXCEPT !.error = "An error occurred: " \o exc,
                            !.info = "Please check your API keys and try again."]
    /\ pc' = "idle"
    /\ SetLocals([l EXCEPT !.outcome = [kind |-> "ComposerError",
                                        destination |-> l.outcome.destination,
                                        source |-> source]])
    /\ UNCHANGED <<widgets, session_state, results_for, compose_calls>>

\* one call of the language model
AgentPlan ==
    /\ pc = "plan"
    /\ \/ \E t \in FinalTexts :
            LET out == [type |-> "final", text |-> t]
            IN Finish([Locals EXCEPT !.model_output = out],
                      [input |-> agent_input, output |-> t])
       \/ \E n \in ToolNames :
            LET out == [type |-> "tool", tool |-> n, location |-> outcome.destination]
            IN /\ pc' = "tool"
               /\ SetLocals([Locals EXCEPT
                               !.model_output = out,
                               !.tool_call = [tool |-> n,
                                              location |-> outcome.destination]])
               /\ UNCHANGED <<widgets, session_state, page, results_for, compose_calls>>
       \/ \E e \in ModelFailures :
            Fail([Locals EXCEPT !.model_output = [type |-> "exception", exc |-> e]],
                 e, "model")

\* the tool the model asked for, run against a provider response
run_tool(call, response) ==
    IF call.tool = "get_weather"
    THEN get_weather(WEATHER_API_KEY, call.location, response)
    ELSE search_attractions(TAVILY_API_KEY, call.location, response)

\* one tool call, the end of the iteration and the loop condition
AgentTool ==
    /\ pc = "tool"
    /\ \E response \in IF tool_call.tool = "get_weather"
                       THEN AgentWeatherResponses ELSE AgentSearchResponses :
          LET r == run_tool(tool_call, response)
              l == [Locals EXCEPT
                      !.provider = response,
                      !.observation = Executed(tool_call.tool, tool_call.location, r),
                      !.iterations = @ + 1]
          IN IF r.raised
             THEN Fail([l EXCEPT !.iterations = iterations], r.exc, tool_call.tool)
             ELSE IF should_continue(l.iterations)
             THEN /\ pc' = "plan"
                  /\ SetLocals(l)
                  /\ UNCHANGED <<widgets, session_state, page, results_for, compose_calls>>
             ELSE Finish(l, [input |-> agent_input, output |-> StoppedResponse])

Next ==
    \/ SelectDestination
    \/ EnterCustomDestination
    \/ SelectInterests
    \/ EnterApiKey
    \/ PressSubmit
    \/ AgentPlan
    \/ AgentTool

Spec == Init /\ [][Next]_vars

\* every network call returns or raises, so a running script goes on
FairSpec == Spec /\ WF_vars(AgentPlan) /\ WF_vars(AgentTool)

(***************************************************************************)
(* The two lookups on their own, against every provider response.          *)
(***************************************************************************)
\* a lookup is about to be called with a location and a provider response
LookupInit ==
    /\ destination_box = ""
    /\ custom_destination = ""
    /\ interests = default_interests
    /\ GOOGLE_API_KEY = "key"
    /\ TAVILY_API_KEY = "key"
    /\ WEATHER_API_KEY = "key"
    /\ session_state = <<>>
    /\ page = ResultsSection("", <<>>)
    /\ pc = "tool"
    /\ agent_input = NoLocals.agent_input
    /\ iterations = NoLocals.iterations
    /\ \E n \in ToolNames, location \in Locations :
          tool_call = [tool |-> n, location |-> location]
    /\ provider \in IF tool_call.tool = "get_weather"
                    THEN WeatherResponses ELSE SearchResponses
    /\ observation = NoLocals.observation
    /\ model_output = NoLocals.model_output
    /\ outcome = NoLocals.outcome
    /\ results_for = ""
    /\ compose_calls = 0

CallGetWeather ==
    /\ pc = "tool"
    /\ tool_call.tool = "get_weather"
    /\ observation' = Executed("get_weather", tool_call.location,
                               get_weather(WEATHER_API_KEY, tool_call.location, provider))
    /\ pc' = "idle"
    /\ UNCHANGED <<widgets, session_state, page, agent_input, iterations, tool_call,
                   provider, model_output, outcome, results_for, compose_calls>>

CallSearchAttractions ==
    /\ pc = "tool"
    /\ tool_call.tool = "search_attractions"
    /\ observation' = Executed("search_attractions", tool_call.location,
                               search_attractions(TAVILY_API_KEY, tool_call.location,
                                                  provider))
    /\ pc' = "idle"
    /\ UNCHANGED <<widgets, session_state, page, agent_input, iterations, tool_call,
                   provider, model_output, outcome, results_for, compose_calls>>

LookupNext == CallGetWeather \/ CallSearchAttractions

LookupSpec == LookupInit /\ [][LookupNext]_vars

(***************************************************************************)
(* Properties.                                                             *)
(***************************************************************************)
\* the fields the code reads are all in the body
HasExpectedFields(data) ==
    /\ "location" \in DOMAIN data
    /\ {"name", "country"} \subseteq DOMAIN data["location"]
    /\ "current" \in DOMAIN data
    /\ {"temp_c", "temp_f", "condition", "humidity", "wind_kph", "feelslike_c",
        "feelslike_f", "last_updated"} \subseteq DOMAIN data["current"]
    /\ "text" \in DOMAIN data["current"]["condition"]

\* transport failure, HTTP error status, body that is not JSON, missing field
WeatherFailure(response) ==
    \/ response.kind = "transport_failure"
    \/ /\ response.kind = "http"
       /\ \/ response.status >= 400
          \/ ~response.body.json
          \/ ~HasExpectedFields(response.body.data)

IsLookupError(obs) ==
    /\ obs.tool # "none"
    /\ ~obs.raised
    /\ obs.tool = "get_weather"
    /\ "error" \in DOMAIN obs.value

Stored == IF "travel_results" \in DOMAIN session_state
          THEN session_state["travel_results"] ELSE ""

\* C1: get_weather never raises; on a transport failure, an HTTP error status,
\* a body that is not JSON or a body missing an expected field it returns an
\* error record with a message, and a report otherwise.
C1_WeatherNeverRaises ==
    observation.tool = "get_weather" =>
        /\ ~observation.raised
        /\ WeatherFailure(provider) =>
              /\ DOMAIN observation.value = {"error"}
              /\ Len(observation.value["error"]) > Len("Failed to get weather information: ")
        /\ ~WeatherFailure(provider) =>
              /\ "error" \notin DOMAIN observation.value
              /\ observation.value["condition"] = provider.body.data["current"]["condition"]["text"]

C1_Witness ==
    /\ observation.tool = "get_weather"
    /\ provider.kind = "http"
    /\ provider.status = 200
    /\ provider.body.json
    /\ "current" \in DOMAIN provider.body.data
    /\ "humidity" \notin DOMAIN provider.body.data["current"]
    /\ ~observation.raised
    /\ observation.value = [error |-> "Failed to get weather information: 'humidity'"]

\* C2: a failure of the search provider inside search_attractions becomes an
\* observation of the model and does not abort the compose call.
C2_SearchFailureObserved ==
    (observation.tool = "search_attractions" /\ ~provider.ok) =>
        /\ ~observation.raised
        /\ outcome.kind # "ComposerError"

\* one step of a compose call around a failed weather lookup
C3_Step ==
    /\ (pc = "tool" /\ tool_call.tool = "get_weather" /\ WeatherFailure(provider')) =>
          /\ IsLookupError(observation')
          /\ outcome'.kind # "ComposerError"
          /\ pc' = "plan" \/ outcome'.kind = "ComposedAnswer"
    /\ (pc = "plan" /\ IsLookupError(observation) /\ model_output'.type = "final") =>
          /\ outcome'.kind = "ComposedAnswer"
          /\ pc' = "idle"
          /\ "travel_results" \in DOMAIN session_state'
          /\ session_state'["travel_results"] = model_output'.text
          /\ page'.body = model_output'.text
          /\ page'.error = ""

\* C3: a weather lookup that fails inside a compose call hands its error
\* record to the model as the observation and does not end the call with an
\* error; when the model then gives a final answer, that text is stored and
\* shown.
C3_WeatherErrorThenAnswer == [][C3_Step]_vars

C3_Witness ==
    /\ pc = "idle"
    /\ outcome.kind = "ComposedAnswer"
    /\ model_output.type = "final"
    /\ IsLookupError(observation)
    /\ WeatherFailure(provider)
    /\ Stored = model_output.text

\* C4: whenever a compose call is running, or the latest script run made a
\* model or tool call, the destination and the three API keys are non-empty.
C4_ComposeNeedsInputs ==
    (pc # "idle" \/ outcome.kind # "none" \/ model_output.type # "none"
       \/ provider.kind # "none" \/ agent_input # "") =>
        /\ Destination(destination_box, custom_destination) # ""
        /\ outcome.destination = Destination(destination_box, custom_destination)
        /\ GOOGLE_API_KEY # ""
        /\ TAVILY_API_KEY # ""
        /\ WEATHER_API_KEY # ""

C4_Witness ==
    /\ pc = "tool"
    /\ iterations > 0
    /\ custom_destination = "Oslo"

\* C5: search_attractions gives one entry per provider result, in the
\* provider's order; entry i carries result i's title or "No title" and its
\* content or "No description", and a missing field raises nothing.
C5_OneEntryPerResult ==
    (observation.tool = "search_attractions" /\ provider.ok) =>
        /\ ~observation.raised
        /\ Len(observation.value) = 1 + 2 * Len(provider.results)
        /\ observation.value[1] = "Top Attractions:\n\n"
        /\ \A i \in 1..Len(provider.results) :
              LET result == provider.results[i]
                  title == IF "title" \in DOMAIN result THEN result["title"] ELSE "No title"
                  content == IF "content" \in DOMAIN result
                             THEN result["content"] ELSE "No description"
              IN /\ observation.value[2 * i] = ToString(i) \o ". " \o title \o "\n"
                 /\ observation.value[2 * i + 1] = "   " \o content \o "\n\n"

C5_Witness ==
    /\ observation.tool = "search_attractions"
    /\ provider.ok
    /\ Len(provider.results) = 3
    /\ "title" \notin DOMAIN provider.results[1]
    /\ "content" \notin DOMAIN provider.results[2]
    /\ provider.results[3] # provider.results[2]
    /\ ~observation.raised
    /\ observation.value[2] = "1. No title\n"
    /\ observation.value[5] = "   No description\n\n"

\* C6: the output of search_attractions lists at most 5 entries, whatever the
\* provider returns.
C6_AtMostFiveEntries ==
    (observation.tool = "search_attractions" /\ ~observation.raised) =>
        (Len(observation.value) - 1) \div 2 <= k

C7_Ended ==
    /\ pc # "idle" => should_continue(iterations)
    /\ outcome.kind = "ComposedAnswer" =>
          \/ /\ model_output.type = "final"
             /\ iterations < max_iterations
             /\ Stored = model_output.text
          \/ /\ model_output.type = "tool"
             /\ iterations = max_iterations
             /\ Stored = StoppedResponse

C7_FinalAnswerEndsLoop ==
    (pc = "plan" /\ model_output'.type = "final") => pc' = "idle"

C8_FailureStep ==
    (outcome.kind = "running" /\ outcome'.kind = "ComposerError") =>
        /\ pc' = "idle"
        /\ Len(page'.error) > Len("An error occurred: ")
        /\ page'.info = "Please check your API keys and try again."
        /\ compose_calls' = compose_calls
        /\ session_state' = session_state

\* C8: an exception of the model call or of a tool call ends the compose call
\* with an error message on the page, leaves the stored result alone and
\* starts nothing; a press of the button starts at most one compose call.
C8_ErrorShownNoRetry ==
    /\ [](compose_calls <= 1)
    /\ [](outcome.kind = "ComposerError" => pc = "idle" /\ page.error # "")
    /\ [][C8_FailureStep]_vars

C8_Witness ==
    /\ outcome.kind = "ComposerError"
    /\ outcome.source = "model"
    /\ iterations > 0
    /\ compose_calls = 1
    /\ page.error = "An error occurred: 503 model unavailable"

\* C9: after a compose call has ended, with an answer or an error, the stored
\* result on display was composed for the destination of that call.
C9_ResultOfLatestRequest ==
    (pc = "idle" /\ outcome.kind \in {"ComposedAnswer", "ComposerError"} /\ page.shown) =>
        results_for = outcome.destination

\* C10: the heading of a displayed result names the destination the stored
\* result was composed for.
C10_HeadingNamesComposedDestination ==
    page.shown => page.heading = "Your Travel Plan for " \o results_for

====
